---- MODULE Spec2Model ----
(***************************************************************************)
(* Model of package tsafe (src/goroutine.go): the process-wide logger slot *)
(* guarded by a sync.RWMutex (SetLogger / getLogger) and the two launchers *)
(* Go and GoWithRecover, which start a goroutine whose deferred function   *)
(* recovers a panic of the task and hands it to a handler.                 *)
(*                                                                         *)
(* Vocabulary of the specification: strand = goroutine, fault = panic,     *)
(* reporter = Logger, registry = defaultLogger + loggerMutex,              *)
(* Launch = Go, LaunchWithHandler = GoWithRecover.                         *)
(***************************************************************************)
EXTENDS Integers, Sequences, FiniteSets, TLC

\* ------------------------------------------------------------- bounds
\* Number of calls of Go / GoWithRecover the callers make in one run.
MaxLaunches == 2
\* Number of SetLogger calls the callers make in one run.
MaxSets == 2
\* Number of direct getLogger calls the callers make in one run.
MaxGets == 2

\* ------------------------------------------------------------- values
\* The nil interface value / nil func value.
Nil == "nil"
\* &defaultLoggerImpl{}, the initial value of defaultLogger.
Builtin == "builtin"
\* Loggers a caller can construct; the Print of "faulty" panics.
CustomLoggers == {"mock", "faulty"}
PanicLoggers == {"faulty"}
\* A Logger is an interface value: two machine words (type, data), which
\* an assignment stores one after the other.  Iface is the value both
\* words of which belong to logger l; Load is what a read of the two words
\* yields: a logger, or a mix of two loggers that no one stored.
Torn == "torn"
Iface(l) == <<l, l>>
Load(w) == IF w[1] = w[2] THEN w[1] ELSE Torn

\* What a caller may pass to SetLogger (the type and getLogger are
\* unexported, so the built-in logger cannot be passed from outside).
LoggerArgs == CustomLoggers \cup {Nil}

\* Non-nil panic values.
FaultVals == {"v1", "v2"}
\* What a non-nil task does when it runs: returns, panics with a non-nil
\* value, or ends abruptly with recover() yielding nil (runtime.Goexit, or
\* panic(nil) before Go 1.21).
Returns == "returns"
AbruptNil == "abrupt-nil"
TaskBodies == {Returns, AbruptNil} \cup FaultVals
Tasks == TaskBodies \cup {Nil}

\* Handlers a caller may pass to GoWithRecover: nil, one that returns, one
\* that itself panics.  GoClosure is the func literal Go passes.
HReturns == "h-returns"
HPanics == "h-panics"
GoClosure == "go-closure"
CallerHandlers == {Nil, HReturns, HPanics}

\* The calling goroutines.
Callers == {1, 2}
CallerT(c) == <<"caller", c>>
StrandT(s) == <<"strand", s>>
NoThread == <<"none", 0>>

VARIABLES
    defaultLogger,  \* the registry slot
    rwWriter,       \* loggerMutex: thread that holds the writer side (pending or in), or NoThread
    rwReaders,      \* loggerMutex: threads holding the read side
    cpc,            \* caller -> where it is inside SetLogger / getLogger ("idle" outside)
    carg,           \* caller -> argument of its SetLogger call in progress
    cret,           \* caller -> value and context of its last getLogger
    strands,        \* sequence of the goroutines created by GoWithRecover
    launchLog,      \* history: the calls of Go / GoWithRecover, in order
    setLog,         \* history: SetLogger calls begun, the arguments of those that returned
                    \* (and of the last to return), whether two overlapped; getLogger calls
    crashed,        \* the process died of an unrecovered panic
    budget          \* how many calls of each kind the callers make in this run

vars == <<defaultLogger, rwWriter, rwReaders, cpc, carg, cret, strands,
          launchLog, setLog, crashed, budget>>

Strands == 1 .. Len(strands)

\* ------------------------------------------------------------- sync.RWMutex
\* A writer first takes the writer side (excluding other writers and new
\* readers), then waits for the readers that are in to leave.
CanLock == rwWriter = NoThread

\* Mutation: getLogger reads without the read lock excluding a writer.
CanRLockUnguarded == TRUE

CanRLock == rwWriter = NoThread

\* Mutation: Lock() returns without waiting for the readers to leave.
ReadersDrainedUnchecked == TRUE

ReadersDrained == rwReaders = {}

\* Mutation: SetLogger returns without releasing the lock.
UnlockMissing == rwWriter

\* loggerMutex.Unlock(): the writer side after the release.
Unlock == NoThread

\* Mutation: getLogger returns without releasing the read lock.
RUnlockMissing(t) == rwReaders

\* loggerMutex.RUnlock() by thread t: the readers after the release.
RUnlock(t) == rwReaders \ {t}

SetterPcs == {"sl-lock", "sl-wait", "sl-write", "sl-write2", "sl-unlock"}
GetterPcs == {"gl-rlock", "gl-read", "gl-runlock"}
SettersInFlight == {c \in Callers : cpc[c] \in SetterPcs}

\* The callers of one run launch several tasks, or one task around several
\* SetLogger calls, or they only use the registry.
LaunchBudget == [launches |-> MaxLaunches, sets |-> 0, gets |-> 0]
MixedBudget == [launches |-> 1, sets |-> MaxSets, gets |-> 0]
RegistryBudget == [launches |-> 0, sets |-> MaxSets, gets |-> MaxGets]
Budgets == {LaunchBudget, MixedBudget, RegistryBudget}
\* The runs whose progress is checked: one task launched around SetLogger
\* calls, or the registry used by concurrent callers.
FairMixedBudget == [launches |-> 1, sets |-> MaxSets - 1, gets |-> 0]
FairBudgets == {FairMixedBudget, RegistryBudget}

\* Mutation: getLogger returns the logger the package started with.
GetLoggerValueInitial == Builtin

\* return defaultLogger: the value getLogger returns.
GetLoggerValue == Load(defaultLogger)

\* Mutation: getLogger puts the built-in logger back when it finds nil
\* (if defaultLogger == nil { defaultLogger = &defaultLoggerImpl{} }).
SlotAfterReadRestored ==
    IF Load(defaultLogger) = Nil THEN Iface(Builtin) ELSE defaultLogger

\* return defaultLogger: the slot after getLogger has read it; getLogger
\* assigns nothing.
SlotAfterRead == defaultLogger

\* A caller that holds no getLogger result.
NoResult ==
    [got |-> FALSE, val |-> Nil, inflight |-> FALSE, returned |-> {},
     last |-> Nil, overlap |-> FALSE]

\* ------------------------------------------------------------- Init
InitWith(budgets) ==
    /\ defaultLogger = Iface(Builtin)
    /\ rwWriter = NoThread
    /\ rwReaders = {}
    /\ cpc = [c \in Callers |-> "idle"]
    /\ carg = [c \in Callers |-> Nil]
    /\ cret = [c \in Callers |-> NoResult]
    /\ strands = <<>>
    /\ launchLog = <<>>
    /\ setLog = [begun |-> 0, returned |-> {}, last |-> Nil,
                 overlap |-> FALSE, gets |-> 0]
    /\ crashed = FALSE
    /\ budget \in budgets

Init == InitWith(Budgets)
FairInit == InitWith(FairBudgets)

\* ------------------------------------------------------------- SetLogger
\* SetLogger is entered: the call is on its way to loggerMutex.Lock().
SetLoggerCall(c, l) ==
    /\ ~crashed
    /\ cpc[c] = "idle"
    /\ setLog.begun < budget.sets
    /\ cpc' = [cpc EXCEPT ![c] = "sl-lock"]
    /\ carg' = [carg EXCEPT ![c] = l]
    /\ setLog' = [setLog EXCEPT !.begun = @ + 1,
                                !.overlap = @ \/ SettersInFlight # {}]
    /\ UNCHANGED <<defaultLogger, rwWriter, rwReaders, cret, strands,
                   launchLog, crashed, budget>>

\* loggerMutex.Lock(), first half: take the writer side.
SetLoggerLock(c) ==
    /\ ~crashed
    /\ cpc[c] = "sl-lock"
    /\ CanLock
    /\ rwWriter' = CallerT(c)
    /\ cpc' = [cpc EXCEPT ![c] = "sl-wait"]
    /\ UNCHANGED <<defaultLogger, rwReaders, carg, cret, strands, launchLog,
                   setLog, crashed, budget>>

\* loggerMutex.Lock(), second half: the active readers have left.
SetLoggerEnter(c) ==
    /\ ~crashed
    /\ cpc[c] = "sl-wait"
    /\ ReadersDrained
    /\ cpc' = [cpc EXCEPT ![c] = "sl-write"]
    /\ UNCHANGED <<defaultLogger, rwWriter, rwReaders, carg, cret, strands,
                   launchLog, setLog, crashed, budget>>

\* defaultLogger = l, the first word.
SetLoggerWrite(c) ==
    /\ ~crashed
    /\ cpc[c] = "sl-write"
    /\ defaultLogger' = <<Iface(carg[c])[1], defaultLogger[2]>>
    /\ cpc' = [cpc EXCEPT ![c] = "sl-write2"]
    /\ UNCHANGED <<rwWriter, rwReaders, carg, cret, strands, launchLog,
                   setLog, crashed, budget>>

\* defaultLogger = l, the second word.
SetLoggerWrite2(c) ==
    /\ ~crashed
    /\ cpc[c] = "sl-write2"
    /\ defaultLogger' = <<defaultLogger[1], Iface(carg[c])[2]>>
    /\ cpc' = [cpc EXCEPT ![c] = "sl-unlock"]
    /\ UNCHANGED <<rwWriter, rwReaders, carg, cret, strands, launchLog,
                   setLog, crashed, budget>>

\* deferred loggerMutex.Unlock(), and the return.
SetLoggerUnlock(c) ==
    /\ ~crashed
    /\ cpc[c] = "sl-unlock"
    /\ rwWriter' = Unlock
    /\ cpc' = [cpc EXCEPT ![c] = "idle"]
    /\ setLog' = [setLog EXCEPT !.returned = @ \cup {carg[c]},
                                !.last = carg[c]]
    /\ carg' = [carg EXCEPT ![c] = Nil]
    /\ UNCHANGED <<defaultLogger, rwReaders, cret, strands, launchLog,
                   crashed, budget>>

\* ------------------------------------------------------------- getLogger
\* Direct calls of getLogger by a caller (the package's tests make them).
GetLoggerCall(c) ==
    /\ ~crashed
    /\ cpc[c] = "idle"
    /\ setLog.gets < budget.gets
    /\ cpc' = [cpc EXCEPT ![c] = "gl-rlock"]
    /\ cret' = [cret EXCEPT ![c] = NoResult]
    /\ setLog' = [setLog EXCEPT !.gets = @ + 1]
    /\ UNCHANGED <<defaultLogger, rwWriter, rwReaders, carg, strands,
                   launchLog, crashed, budget>>

\* loggerMutex.RLock()
GetLoggerRLock(c) ==
    /\ ~crashed
    /\ cpc[c] = "gl-rlock"
    /\ CanRLock
    /\ rwReaders' = rwReaders \cup {CallerT(c)}
    /\ cpc' = [cpc EXCEPT ![c] = "gl-read"]
    /\ UNCHANGED <<defaultLogger, rwWriter, carg, cret, strands, launchLog,
                   setLog, crashed, budget>>

\* return defaultLogger: the result is evaluated under the read lock.
GetLoggerRead(c) ==
    /\ ~crashed
    /\ cpc[c] = "gl-read"
    /\ cret' = [cret EXCEPT ![c] =
                  [got |-> FALSE, val |-> GetLoggerValue,
                   inflight |-> SettersInFlight # {},
                   returned |-> setLog.returned,
                   last |-> setLog.last,
                   overlap |-> setLog.overlap]]
    /\ cpc' = [cpc EXCEPT ![c] = "gl-runlock"]
    /\ defaultLogger' = SlotAfterRead
    /\ UNCHANGED <<rwWriter, rwReaders, carg, strands, launchLog, setLog,
                   crashed, budget>>

\* deferred loggerMutex.RUnlock(), and the return.
GetLoggerRUnlock(c) ==
    /\ ~crashed
    /\ cpc[c] = "gl-runlock"
    /\ rwReaders' = RUnlock(CallerT(c))
    /\ cret' = [cret EXCEPT ![c].got = TRUE]
    /\ cpc' = [cpc EXCEPT ![c] = "idle"]
    /\ UNCHANGED <<defaultLogger, rwWriter, carg, strands, launchLog, setLog,
                   crashed, budget>>

\* ------------------------------------------------------------- launchers
\* Mutation: the nil check of the task is missing.
NilTaskGuardMissing(goroutine) == FALSE

\* if goroutine == nil { return }
NilTaskGuard(goroutine) == goroutine = Nil

\* Mutation: Go resolves the reporter when it is called (getLogger() is
\* evaluated outside the closure) and the closure uses that value.
NewStrandReadsRegistry(op, goroutine, customRecover) ==
    [op |-> op, task |-> goroutine, handler |-> customRecover,
     pc |-> "scheduled", err |-> Nil,
     logger |-> IF op = "Go" THEN GetLoggerValue ELSE Nil,
     hcalls |-> <<>>, prints |-> <<>>,
     reads |-> IF op = "Go" THEN 1 ELSE 0,
     setsAtLaunch |-> setLog.begun,
     quietAtLaunch |-> SettersInFlight = {},
     lockedAtLaunch |-> rwWriter # NoThread,
     setsAtFault |-> 0, quietAtFault |-> FALSE]

\* The goroutine the go statement creates, about to be scheduled.  The
\* last fields are history: the SetLogger calls made before the launch,
\* whether one was in progress, whether the write lock was taken; and, once
\* a fault of the task has been intercepted, the SetLogger calls made
\* before that and whether one was in progress then.
NewStrand(op, goroutine, customRecover) ==
    [op |-> op, task |-> goroutine, handler |-> customRecover,
     pc |-> "scheduled", err |-> Nil, logger |-> Nil,
     hcalls |-> <<>>, prints |-> <<>>, reads |-> 0,
     setsAtLaunch |-> setLog.begun,
     quietAtLaunch |-> SettersInFlight = {},
     lockedAtLaunch |-> rwWriter # NoThread,
     setsAtFault |-> 0, quietAtFault |-> FALSE]

\* Mutation: the wrapper is called in the caller's goroutine (the go
\* keyword is missing), so no goroutine is created.
GoStatementInline(st) == strands

\* go func() { ... }(): one goroutine is created.
GoStatement(st) == Append(strands, st)

\* Mutation: the launcher calls getLogger() itself before the go
\* statement, so it needs the read lock.
CallerPartTakesRLock == CanRLock

\* What the caller's part of Go / GoWithRecover waits for: it contains a
\* nil check and a go statement, no lock operation and no receive.
CallerPartReady == TRUE

\* GoWithRecover(goroutine, customRecover), entered through `op`.
GoWithRecoverBody(op, goroutine, customRecover) ==
    IF NilTaskGuard(goroutine)
    THEN /\ launchLog' = Append(launchLog,
                [op |-> op, task |-> goroutine, handler |-> customRecover,
                 strand |-> 0])
         /\ UNCHANGED strands
    ELSE /\ launchLog' = Append(launchLog,
                [op |-> op, task |-> goroutine, handler |-> customRecover,
                 strand |-> Len(strands) + 1])
         /\ strands' = GoStatement(NewStrand(op, goroutine, customRecover))

\* Go(goroutine): GoWithRecover with the closure that consults the registry.
Go(c, goroutine) ==
    /\ ~crashed
    /\ cpc[c] = "idle"
    /\ Len(launchLog) < budget.launches
    /\ CallerPartReady
    /\ GoWithRecoverBody("Go", goroutine, GoClosure)
    /\ UNCHANGED <<defaultLogger, rwWriter, rwReaders, cpc, carg, cret,
                   setLog, crashed, budget>>

GoWithRecover(c, goroutine, customRecover) ==
    /\ ~crashed
    /\ cpc[c] = "idle"
    /\ Len(launchLog) < budget.launches
    /\ CallerPartReady
    /\ GoWithRecoverBody("GoWithRecover", goroutine, customRecover)
    /\ UNCHANGED <<defaultLogger, rwWriter, rwReaders, cpc, carg, cret,
                   setLog, crashed, budget>>

\* ------------------------------------------------------------- the goroutine
\* What goroutine() raises: the value of its panic, or nil when it returns
\* or ends with recover() yielding nil.  Calling a nil func is a runtime
\* panic (nil dereference).
PanicValue(task) ==
    IF task \in FaultVals THEN task
    ELSE IF task = Nil THEN "nil-deref"
    ELSE Nil

\* Mutation: recover() is not called by the deferred function itself (or
\* no defer is installed), so it stops nothing.
RecoverNotInDeferred == FALSE

\* The deferred function calls recover() itself, so a panic of the task
\* stops there.
RecoverInDeferred == TRUE

\* err := recover()
Recovered(task) == IF RecoverInDeferred THEN PanicValue(task) ELSE Nil

\* Mutation: the handler is called whenever there is one, fault or not.
ShouldCallRecoverNoErrCheck(err, customRecover) == customRecover # Nil

\* Mutation: the handler is called on every fault, nil or not.
ShouldCallRecoverNoNilCheck(err, customRecover) == err # Nil

\* Mutation: && written as ||.
ShouldCallRecoverEither(err, customRecover) == err # Nil \/ customRecover # Nil

\* err != nil && customRecover != nil
ShouldCallRecover(err, customRecover) == err # Nil /\ customRecover # Nil

\* Mutation: the handler is handed the zero value instead of err.
HandlerArgDropped(err) == Nil

\* Mutation: the handler is handed a fault kept in state shared by all the
\* strands (the fault some strand recovered), not the strand's own.
HandlerArgShared(err) ==
    LET seen == {strands[i].err : i \in 1 .. Len(strands)} \ {Nil}
    IN  IF \E v \in seen : v # err THEN CHOOSE v \in seen : v # err ELSE err

\* customRecover(err): the argument the handler receives.
HandlerArg(err) == err

\* Mutation: the reporter is used without the nil check.
ShouldLogUnchecked(logger) == TRUE

\* Mutation: the nil check is inverted (logger == nil).
ShouldLogInverted(logger) == logger = Nil

\* logger != nil
ShouldLog(logger) == logger # Nil

\* Mutation: no trace is captured.
StackEmpty(s) == <<>>

\* debug.Stack(): the formatted stack of the calling goroutine, never empty.
Stack(s) == <<"goroutine", s>>

\* Mutation: the registry is consulted again for the call
\* (if getLogger() != nil { getLogger().Print(...) }).
PrintTargetReread(logger) == GetLoggerValue

\* logger.Print: the receiver is the variable the nil check tested.
PrintTarget(logger) == logger

\* logger.Print(err, debug.Stack())
PrintCall(logger, err, s) == [logger |-> logger, err |-> err, stack |-> Stack(s)]

TerminalPcs == {"Completed", "FaultedReported", "FaultedDiscarded"}

\* The scheduler starts the goroutine: the defer is installed and
\* goroutine() is called.
StrandStart(s) ==
    /\ ~crashed
    /\ strands[s].pc = "scheduled"
    /\ strands' = [strands EXCEPT ![s].pc = "running"]
    /\ UNCHANGED <<defaultLogger, rwWriter, rwReaders, cpc, carg, cret,
                   launchLog, setLog, crashed, budget>>

\* goroutine() ends, by returning or by panicking, and the deferred
\* function runs:
\*   if err := recover(); err != nil && customRecover != nil { ... }
\* (all of it local to the goroutine).
TaskRun(s) ==
    LET st == strands[s]
        raised == PanicValue(st.task)
        err == Recovered(st.task)
    IN  /\ ~crashed
        /\ st.pc = "running"
        /\ IF raised # Nil /\ err = Nil
           THEN \* the panic was not stopped: it leaves the goroutine
                /\ crashed' = TRUE
                /\ strands' = [strands EXCEPT ![s].pc = "panicked"]
           ELSE /\ UNCHANGED crashed
                /\ strands' = [strands EXCEPT
                     ![s].err = err,
                     ![s].setsAtFault = IF err # Nil THEN setLog.begun ELSE @,
                     ![s].quietAtFault = err # Nil /\ SettersInFlight = {},
                     ![s].pc = IF ShouldCallRecover(err, st.handler)
                               THEN "recover-call"
                               ELSE IF err # Nil THEN "FaultedDiscarded"
                               ELSE "Completed"]
        /\ UNCHANGED <<defaultLogger, rwWriter, rwReaders, cpc, carg, cret,
                       launchLog, setLog, budget>>

\* customRecover(err), for a handler the caller supplied.  A panic of the
\* handler is raised inside the deferred function, after recover(): nothing
\* stops it.  (Calling a nil func would panic too.)
CallHandler(s) ==
    LET st == strands[s]
        faults == st.handler \in {HPanics, Nil}
    IN  /\ ~crashed
        /\ st.pc = "recover-call"
        /\ st.handler \in {HReturns, HPanics, Nil}
        /\ strands' = [strands EXCEPT
             ![s].hcalls = IF st.handler = Nil THEN @
                           ELSE Append(@, HandlerArg(st.err)),
             ![s].pc = IF faults THEN "panicked" ELSE "FaultedReported"]
        /\ crashed' = faults
        /\ UNCHANGED <<defaultLogger, rwWriter, rwReaders, cpc, carg, cret,
                       launchLog, setLog, budget>>

\* customRecover(err), for Go's closure: getLogger() begins with
\* loggerMutex.RLock().
ClosureRLock(s) ==
    LET st == strands[s]
    IN  /\ ~crashed
        /\ st.pc = "recover-call"
        /\ st.handler = GoClosure
        /\ CanRLock
        /\ rwReaders' = rwReaders \cup {StrandT(s)}
        /\ strands' = [strands EXCEPT ![s].pc = "gl-read"]
        /\ UNCHANGED <<defaultLogger, rwWriter, cpc, carg, cret, launchLog,
                       setLog, crashed, budget>>

\* return defaultLogger
ClosureRead(s) ==
    /\ ~crashed
    /\ strands[s].pc = "gl-read"
    /\ strands' = [strands EXCEPT ![s].logger = GetLoggerValue,
                                  ![s].reads = @ + 1,
                                  ![s].pc = "gl-runlock"]
    /\ defaultLogger' = SlotAfterRead
    /\ UNCHANGED <<rwWriter, rwReaders, cpc, carg, cret, launchLog, setLog,
                   crashed, budget>>

\* deferred loggerMutex.RUnlock(), then
\*   if logger := getLogger(); logger != nil
ClosureRUnlock(s) ==
    LET st == strands[s]
    IN  /\ ~crashed
        /\ st.pc = "gl-runlock"
        /\ rwReaders' = RUnlock(StrandT(s))
        /\ strands' = [strands EXCEPT
             ![s].pc = IF ShouldLog(st.logger) THEN "log-print"
                       ELSE "FaultedDiscarded"]
        /\ UNCHANGED <<defaultLogger, rwWriter, cpc, carg, cret, launchLog,
                       setLog, crashed, budget>>

\* logger.Print(err, debug.Stack()), err being the closure's parameter.  A
\* panic of Print is raised inside the deferred function too.  (A method
\* call on a nil or torn interface value faults before any Print runs.)
ClosurePrint(s) ==
    LET st == strands[s]
        target == PrintTarget(st.logger)
        invalid == target \in {Nil, Torn}
        faults == invalid \/ target \in PanicLoggers
    IN  /\ ~crashed
        /\ st.pc = "log-print"
        /\ strands' = [strands EXCEPT
             ![s].prints = IF invalid THEN @
                           ELSE Append(@, PrintCall(target,
                                                    HandlerArg(st.err), s)),
             ![s].pc = IF faults THEN "panicked" ELSE "FaultedReported"]
        /\ crashed' = faults
        /\ UNCHANGED <<defaultLogger, rwWriter, rwReaders, cpc, carg, cret,
                       launchLog, setLog, budget>>

\* ------------------------------------------------------------- specification
\* A crashed process takes no further step: every action requires ~crashed.
Next ==
    \/ \E c \in Callers, l \in LoggerArgs : SetLoggerCall(c, l)
    \/ \E c \in Callers : SetLoggerLock(c)
    \/ \E c \in Callers : SetLoggerEnter(c)
    \/ \E c \in Callers : SetLoggerWrite(c)
    \/ \E c \in Callers : SetLoggerWrite2(c)
    \/ \E c \in Callers : SetLoggerUnlock(c)
    \/ \E c \in Callers : GetLoggerCall(c)
    \/ \E c \in Callers : GetLoggerRLock(c)
    \/ \E c \in Callers : GetLoggerRead(c)
    \/ \E c \in Callers : GetLoggerRUnlock(c)
    \/ \E c \in Callers, t \in Tasks : Go(c, t)
    \/ \E c \in Callers, t \in Tasks, h \in CallerHandlers :
           GoWithRecover(c, t, h)
    \/ \E s \in Strands : StrandStart(s)
    \/ \E s \in Strands : TaskRun(s)
    \/ \E s \in Strands : CallHandler(s)
    \/ \E s \in Strands : ClosureRLock(s)
    \/ \E s \in Strands : ClosureRead(s)
    \/ \E s \in Strands : ClosureRUnlock(s)
    \/ \E s \in Strands : ClosurePrint(s)

Spec == Init /\ [][Next]_vars

\* The steps of a call of SetLogger or getLogger once it is entered, and
\* the steps of a launched goroutine.
CallerStep(c) ==
    \/ SetLoggerLock(c) \/ SetLoggerEnter(c) \/ SetLoggerWrite(c)
    \/ SetLoggerWrite2(c) \/ SetLoggerUnlock(c)
    \/ GetLoggerRLock(c) \/ GetLoggerRead(c) \/ GetLoggerRUnlock(c)
StrandStep(s) ==
    /\ s \in Strands
    /\ \/ StrandStart(s) \/ TaskRun(s) \/ CallHandler(s) \/ ClosureRLock(s)
       \/ ClosureRead(s) \/ ClosureRUnlock(s) \/ ClosurePrint(s)

\* The Go scheduler runs every runnable goroutine again and again, and the
\* task bodies, handlers and reporters considered here end; what the callers
\* call, and when, is left to them.
FairSpec ==
    /\ FairInit
    /\ [][Next]_vars
    /\ \A c \in Callers : WF_vars(CallerStep(c))
    /\ \A s \in 1 .. MaxLaunches : WF_vars(StrandStep(s))

\* ------------------------------------------------------------- vocabulary of the claims
\* The task of strand s raises a fault (a panic with a non-nil value).
RaisesFault(s) == strands[s].task \in FaultVals
\* The strand has ended in one of the terminal states.
Ended(s) == strands[s].pc \in TerminalPcs
\* The boundary of strand s has finished its work, normally or not.
BoundaryDone(s) == strands[s].pc \in TerminalPcs \cup {"panicked"}
\* Invocations of the caller's handler / of a reporter on behalf of strand s.
Invocations(s) == Len(strands[s].hcalls) + Len(strands[s].prints)
\* Strand s used the registry: took its lock, read its slot, or called a
\* reporter.
TouchedRegistry(s) ==
    \/ strands[s].reads > 0
    \/ StrandT(s) \in rwReaders
    \/ strands[s].pc \in {"gl-read", "gl-runlock", "log-print"}
    \/ strands[s].prints # <<>>
\* The handler or reporter strand s invokes faults when invoked.
InvokesFaulty(s) ==
    \/ strands[s].handler = HPanics
    \/ strands[s].handler = GoClosure /\ strands[s].logger \in PanicLoggers

\* ------------------------------------------------------------- C1
\* C1: a fault raised by a task launched with Go or GoWithRecover is
\* intercepted inside its strand whenever the handler (possibly nil) or the
\* reporter (possibly nil) returns normally: the process crashes only when
\* some strand's handler or reporter itself faulted, and a strand whose
\* handler or reporter returns normally never ends with a fault leaving it.
C1_FaultIntercepted ==
    /\ \A s \in Strands :
         strands[s].pc = "panicked" => InvokesFaulty(s)
    /\ crashed => \E s \in Strands : strands[s].pc = "panicked"

\* A Go strand and a GoWithRecover strand both faulted, both boundaries
\* finished, and the process is alive.
C1_Witness ==
    /\ ~crashed
    /\ \E s \in Strands :
         /\ strands[s].op = "Go" /\ RaisesFault(s) /\ Ended(s)
    /\ \E s \in Strands :
         /\ strands[s].op = "GoWithRecover" /\ RaisesFault(s) /\ Ended(s)

\* ------------------------------------------------------------- C2
\* C2: GoWithRecover(T, h) with T raising fault V and h non-nil invokes h
\* exactly once, with V, and never touches the registry.
C2_HandlerOnceNoRegistry ==
    \A s \in Strands :
        (strands[s].op = "GoWithRecover" /\ RaisesFault(s)
            /\ strands[s].handler # Nil)
        => /\ ~TouchedRegistry(s)
           /\ strands[s].hcalls \in {<<>>, <<strands[s].task>>}
           /\ BoundaryDone(s) => strands[s].hcalls = <<strands[s].task>>

C2_Witness ==
    \E s \in Strands :
        /\ strands[s].op = "GoWithRecover" /\ RaisesFault(s)
        /\ strands[s].handler = HReturns
        /\ strands[s].pc = "FaultedReported"
        /\ strands[s].hcalls = <<strands[s].task>>

\* ------------------------------------------------------------- C3
\* C3: Go(T) with T raising fault V invokes Print(V, trace) exactly once, on
\* the reporter the registry returned, with a non-empty trace, provided the
\* reporter the boundary reads from the registry when it intercepts the
\* fault is non-nil.
C3_ReporterOnce ==
    \A s \in Strands :
        (strands[s].op = "Go" /\ RaisesFault(s))
        => LET st == strands[s]
               call == [logger |-> st.logger, err |-> st.task,
                        stack |-> Stack(s)]
           IN  /\ st.hcalls = <<>>
               /\ st.prints \in {<<>>, <<call>>}
               /\ st.prints # <<>> => /\ st.reads = 1
                                     /\ st.prints[1].stack # <<>>
               /\ (st.reads = 1 /\ st.logger # Nil /\ BoundaryDone(s))
                      => st.prints = <<call>>

C3_Witness ==
    \E s \in Strands :
        /\ strands[s].op = "Go" /\ RaisesFault(s)
        /\ strands[s].pc = "FaultedReported"
        /\ strands[s].logger \in {Builtin, "mock"}
        /\ Len(strands[s].prints) = 1
        /\ strands[s].prints[1].err = strands[s].task

\* ------------------------------------------------------------- C4
\* C4: for every launch the invocations of the default reporter plus those
\* of the caller's handler are at most one, and none when the task ended
\* without raising a fault.
C4_AtMostOneInvocation ==
    \A s \in Strands :
        /\ Invocations(s) <= 1
        /\ ~RaisesFault(s) => Invocations(s) = 0

\* One task returned with a handler attached that was not invoked, another
\* one faulted and had exactly one invocation.
C4_Witness ==
    /\ \E s \in Strands :
         /\ strands[s].task = Returns /\ strands[s].pc = "Completed"
         /\ strands[s].handler \in {HReturns, GoClosure}
         /\ Invocations(s) = 0
    /\ \E s \in Strands :
         /\ RaisesFault(s) /\ Ended(s) /\ Invocations(s) = 1

\* ------------------------------------------------------------- C5
\* The launch calls with a nil task / the strands they created.
NilLaunches == {i \in 1 .. Len(launchLog) : launchLog[i].task = Nil}
\* The call being made in this step, when the step is a launch call.
IsLaunchStep == Len(launchLog') = Len(launchLog) + 1
ThisLaunch == launchLog'[Len(launchLog')]

\* C5: GoWithRecover(nil, h), for any h including nil, is a silent no-op:
\* the call creates no strand, invokes nothing, leaves the registry and its
\* lock alone and raises no fault.
C5_NilTaskNoOp ==
    [][(IsLaunchStep /\ ThisLaunch.op = "GoWithRecover"
            /\ ThisLaunch.task = Nil)
        => /\ ThisLaunch.strand = 0
           /\ UNCHANGED <<strands, defaultLogger, rwWriter, rwReaders, cpc,
                          carg, cret, setLog, crashed>>]_vars

\* GoWithRecover(nil, h) was called with a non-nil h and with a nil h, and
\* there is still no strand at all.
C5_Witness ==
    /\ \E i \in NilLaunches :
         launchLog[i].op = "GoWithRecover" /\ launchLog[i].handler = HReturns
    /\ \E i \in NilLaunches :
         launchLog[i].op = "GoWithRecover" /\ launchLog[i].handler = Nil
    /\ strands = <<>>
    /\ ~crashed

\* ------------------------------------------------------------- C6
\* C6: GoWithRecover(T, nil) with T raising a fault: the fault is
\* intercepted and discarded; no handler is invoked, the registry is not
\* used as a fallback, nothing propagates, and the strand ends in
\* Faulted-Discarded.
C6_NilHandlerDiscards ==
    \A s \in Strands :
        (strands[s].op = "GoWithRecover" /\ RaisesFault(s)
            /\ strands[s].handler = Nil)
        => /\ Invocations(s) = 0
           /\ ~TouchedRegistry(s)
           /\ strands[s].pc \in {"scheduled", "running", "FaultedDiscarded"}

C6_Witness ==
    \E s \in Strands :
        /\ strands[s].op = "GoWithRecover" /\ RaisesFault(s)
        /\ strands[s].handler = Nil
        /\ strands[s].pc = "FaultedDiscarded"
        /\ ~crashed

\* ------------------------------------------------------------- C7
\* C7: SetLogger(nil) is accepted like any other argument (nil is stored
\* when its critical section ends), and a fault of a task launched with Go
\* that finds nil in the registry is intercepted with no reporter
\* invocation at all: the strand ends in Faulted-Discarded, never with a
\* fault leaving it, and the built-in reporter is not put back (once a
\* SetLogger has returned, the slot never holds it again).
C7_NilReporterDiscards ==
    /\ \A s \in Strands :
         (strands[s].op = "Go" /\ strands[s].reads = 1
             /\ strands[s].logger = Nil)
         => /\ Invocations(s) = 0
            /\ strands[s].pc \in {"gl-runlock", "FaultedDiscarded"}
    /\ \A c \in Callers :
         (cpc[c] = "sl-unlock" /\ carg[c] = Nil)
         => Load(defaultLogger) = Nil
    /\ setLog.returned # {} => Load(defaultLogger) # Builtin

\* SetLogger(nil) has returned, the slot holds nil, and a Go strand whose
\* task faulted read nil and ended discarded.
C7_Witness ==
    /\ Nil \in setLog.returned
    /\ Load(defaultLogger) = Nil
    /\ ~crashed
    /\ \E s \in Strands :
         /\ strands[s].op = "Go" /\ RaisesFault(s)
         /\ strands[s].reads = 1 /\ strands[s].logger = Nil
         /\ strands[s].pc = "FaultedDiscarded"

\* ------------------------------------------------------------- C9
\* A getLogger that reads after every SetLogger call made so far has
\* returned (at least one has) yields one of the reporters those calls
\* supplied, namely that of the call that returned last: not the reporter
\* installed before them, not a value no setter supplied, and nil only if
\* that setter supplied nil.  No getLogger yields a mix of two reporters,
\* and no step of SetLogger or getLogger faults.
GetYieldsSupplied ==
    /\ \A c \in Callers :
         (cpc[c] = "gl-runlock" \/ cret[c].got)
         => /\ cret[c].val # Torn
            /\ (~cret[c].inflight /\ cret[c].returned # {})
                  => /\ cret[c].val \in cret[c].returned
                     /\ cret[c].val = cret[c].last
                     /\ cret[c].val # Builtin
    /\ crashed => \E s \in Strands : strands[s].pc = "panicked"

\* C9: SetLogger calls made concurrently with distinct reporters all
\* return (under fair scheduling; no deadlock, no fault), and a getLogger
\* made after all of them have returned yields one of the reporters
\* supplied, never the one installed before, never a value no setter
\* supplied.  (A process that a fault of a strand's handler or reporter has
\* terminated schedules nothing.)
C9_ConcurrentSetLogger ==
    /\ []GetYieldsSupplied
    /\ \A c \in Callers :
          (cpc[c] \in SetterPcs \cup GetterPcs) ~> (cpc[c] = "idle" \/ crashed)

\* Two SetLogger calls with distinct non-nil reporters overlapped, both
\* returned, and a getLogger made afterwards returned one of the two.
C9_Witness ==
    \E c \in Callers :
        /\ cret[c].got
        /\ cret[c].overlap
        /\ ~cret[c].inflight
        /\ cret[c].returned = CustomLoggers
        /\ cret[c].val \in CustomLoggers

\* ------------------------------------------------------------- C10
RECURSIVE SumInvocations(_)
SumInvocations(n) == IF n = 0 THEN 0 ELSE Invocations(n) + SumInvocations(n - 1)

\* The strands whose task raised a fault.
FaultedStrands == {s \in Strands : RaisesFault(s)}
\* A handler is attached to the launch of s: a non-nil handler, or a
\* reporter in the registry when the boundary read it.
HandlerAttached(s) ==
    IF strands[s].op = "Go" THEN strands[s].logger # Nil
    ELSE strands[s].handler # Nil
\* The fault values received by the handler or the reporter of strand s.
Received(s) ==
    {strands[s].hcalls[i] : i \in 1 .. Len(strands[s].hcalls)}
        \cup {strands[s].prints[i].err : i \in 1 .. Len(strands[s].prints)}

\* C10: with several tasks launched concurrently, some raising faults and
\* the others returning, the handler (or reporter call) of each launch
\* receives only the value its own task raised, and once all the strands
\* have ended the number of handler/reporter invocations is the number of
\* faulted tasks (each launch having a handler attached).
C10_CountAndNoCrossTalk ==
    /\ \A s \in Strands : Received(s) \subseteq {strands[s].task} \cap FaultVals
    /\ ((\A s \in Strands : Ended(s))
            /\ (\A s \in FaultedStrands : HandlerAttached(s)))
          => SumInvocations(Len(strands)) = Cardinality(FaultedStrands)

\* Two tasks faulted with distinct values while both were running, both
\* strands have ended, and each handler received its own value.
C10_Witness ==
    /\ Len(strands) = 2
    /\ \A s \in Strands : RaisesFault(s) /\ Ended(s) /\ HandlerAttached(s)
    /\ strands[1].task # strands[2].task
    /\ Received(1) = {strands[1].task}
    /\ Received(2) = {strands[2].task}
    /\ strands[1].op # strands[2].op

\* ------------------------------------------------------------- C8
\* A SetLogger call was made after strand s was launched.
SetLoggerSince(s) == s \in Strands /\ setLog.begun > strands[s].setsAtLaunch
\* Strand s was launched by Go with a faulting task after a SetLogger call
\* had returned and while none was in progress, none has been made since,
\* and the reporter that call installed is a custom one.
LaunchedUnderCustom(s) ==
    /\ s \in Strands
    /\ strands[s].op = "Go"
    /\ RaisesFault(s)
    /\ strands[s].quietAtLaunch
    /\ strands[s].setsAtLaunch > 0
    /\ ~SetLoggerSince(s)
    /\ Load(defaultLogger) \in CustomLoggers
\* The one report the installed reporter is to receive for strand s.
CustomReport(s) ==
    [logger |-> Load(defaultLogger), err |-> strands[s].task,
     stack |-> Stack(s)]

\* The custom reporter has received that report, and nothing else was
\* invoked for the strand.
ReportedToCustom(s) ==
    /\ s \in Strands
    /\ strands[s].prints = <<CustomReport(s)>>
    /\ strands[s].hcalls = <<>>
    /\ BoundaryDone(s)

\* C8: after SetLogger(custom) has returned, and as long as no other
\* SetLogger call is made, a Go(T) whose task raises fault V leads, under
\* fair scheduling, to exactly one invocation custom.Print(V, trace); no
\* other reporter (the built-in one in particular) is invoked for the
\* fault.  (A process that a fault of another strand's handler or reporter
\* has terminated schedules nothing.)
C8_CustomReporterObserves ==
    /\ [](\A s \in 1 .. MaxLaunches :
            LaunchedUnderCustom(s)
            => /\ strands[s].prints \in {<<>>, <<CustomReport(s)>>}
               /\ strands[s].hcalls = <<>>)
    /\ \A s \in 1 .. MaxLaunches :
          LaunchedUnderCustom(s)
          ~> \/ LaunchedUnderCustom(s) /\ ReportedToCustom(s)
             \/ SetLoggerSince(s)
             \/ crashed

\* SetLogger(mock) returned, then Go launched a faulting task, no other
\* SetLogger call was made, and mock received the one report.
C8_Witness ==
    \E s \in 1 .. MaxLaunches :
        /\ LaunchedUnderCustom(s)
        /\ Load(defaultLogger) = "mock"
        /\ strands[s].pc = "FaultedReported"
        /\ strands[s].prints = <<CustomReport(s)>>
        /\ ~crashed

\* ------------------------------------------------------------- C11
\* The launch calls made so far with a non-nil task.
TaskLaunches == {i \in 1 .. Len(launchLog) : launchLog[i].task # Nil}

\* C11 as stated: after k calls of Go / GoWithRecover, of any arguments,
\* exactly k strands have been created.
C11_OneStrandPerCall == Len(strands) = Len(launchLog)

\* C11, amended: every call of Go or GoWithRecover with a non-nil task
\* creates exactly one new strand, and a call with a nil task creates none:
\* after k launch calls of which n had a nil task, exactly k - n strands
\* have been created, one for each call with a task, running that call's
\* task with that call's handler.
C11_OneStrandPerTaskCall ==
    /\ Len(strands) = Cardinality(TaskLaunches)
    /\ \A i \in 1 .. Len(launchLog) :
         IF launchLog[i].task = Nil
         THEN launchLog[i].strand = 0
         ELSE /\ launchLog[i].strand \in Strands
              /\ strands[launchLog[i].strand].task = launchLog[i].task
              /\ strands[launchLog[i].strand].handler = launchLog[i].handler
              /\ strands[launchLog[i].strand].op = launchLog[i].op
    /\ \A i, j \in TaskLaunches :
         launchLog[i].strand = launchLog[j].strand => i = j

\* Go(nil) was called, then GoWithRecover with a task: two calls, one
\* strand, which has run to its end.
C11_Witness ==
    /\ Len(launchLog) = 2
    /\ launchLog[1].task = Nil
    /\ launchLog[2].task # Nil
    /\ launchLog[1].op = "Go"
    /\ launchLog[2].op = "GoWithRecover"
    /\ Len(strands) = 1
    /\ strands[1].pc \in TerminalPcs

\* ------------------------------------------------------------- C12
\* Caller c can make (and complete) any launch call in the current state.
LaunchPossible(c) ==
    \A t \in Tasks :
        /\ ENABLED Go(c, t)
        /\ \A h \in CallerHandlers : ENABLED GoWithRecover(c, t, h)

\* C12: Go and GoWithRecover never block the caller.  A caller that is not
\* inside another call (and has launches left to make) can make and complete
\* a launch in every reachable state of a live process, whoever holds the
\* registry's lock and whatever the strands launched before are doing; and
\* launching leaves no lock with the caller: a caller holds a side of the
\* lock only while it is inside SetLogger or getLogger.
C12_LaunchNeverBlocks ==
    /\ \A c \in Callers :
         (~crashed /\ cpc[c] = "idle" /\ Len(launchLog) < budget.launches)
         => LaunchPossible(c)
    /\ \A c \in Callers :
         /\ rwWriter = CallerT(c) => cpc[c] \in SetterPcs
         /\ CallerT(c) \in rwReaders => cpc[c] \in GetterPcs

\* A launch was made while another caller held the write lock; the write
\* lock is still held and the launched task has not started.
C12_Witness ==
    /\ Len(strands) = 1
    /\ strands[1].lockedAtLaunch
    /\ strands[1].pc = "scheduled"
    /\ \E c \in Callers : rwWriter = CallerT(c) /\ cpc[c] = "sl-write2"

\* ------------------------------------------------------------- C13
\* C13: no fault raised inside a launched strand gets past the interception
\* boundary, a fault raised by the caller's handler or by the reporter's
\* Print during its invocation at the boundary included: no strand ends
\* with a fault leaving it and the process does not crash.
C13_NoFaultEscapes ==
    /\ ~crashed
    /\ \A s \in Strands : strands[s].pc # "panicked"

\* ------------------------------------------------------------- C14
\* The value the latest completed critical section of SetLogger wrote (the
\* built-in reporter when none has completed).
LatestWritten == IF setLog.returned = {} THEN Builtin ELSE setLog.last
\* This step is the registry read of strand s.
ReadStep(s) == s \in Strands /\ strands'[s].reads = strands[s].reads + 1
\* A SetLogger call was made after strand s was launched, every SetLogger
\* call had returned when the task of s faulted, and none was made since.
SetBetweenLaunchAndFault(s) ==
    /\ strands[s].setsAtFault > strands[s].setsAtLaunch
    /\ strands[s].quietAtFault
    /\ setLog.begun = strands[s].setsAtFault

\* C14: for a task launched with Go the registry is read exactly once, when
\* the boundary handles the intercepted fault, not when Go is called (a
\* strand that has not faulted yet holds no reporter), and not at all when
\* the task ends without a fault.  The read yields what the latest
\* completed SetLogger wrote, whatever was installed when Go was called; so
\* when SetLogger(r2) completes after Go(T) returned and before T faults
\* (and no other SetLogger call follows), the report goes to r2.
C14_ReadOnceAtInterception ==
    /\ [](\A s \in Strands :
            LET st == strands[s]
            IN  /\ st.reads \in {0, 1}
                /\ st.pc \in {"scheduled", "running"}
                      => st.reads = 0 /\ st.logger = Nil
                /\ st.reads = 1 => st.op = "Go" /\ RaisesFault(s)
                /\ ~RaisesFault(s) => st.reads = 0
                /\ (st.op = "Go" /\ RaisesFault(s) /\ BoundaryDone(s))
                      => st.reads = 1
                /\ (st.prints # <<>> /\ SetBetweenLaunchAndFault(s))
                      => st.prints[1].logger = setLog.last)
    /\ [][\A s \in 1 .. MaxLaunches :
            ReadStep(s) => strands'[s].logger = LatestWritten]_vars

\* Go(T) was called when SetLogger(nil) had returned; SetLogger(mock) was
\* then called and returned before T faulted, and the fault was reported to
\* mock.
C14_Witness ==
    \E s \in Strands :
        /\ strands[s].op = "Go"
        /\ strands[s].quietAtLaunch /\ strands[s].setsAtLaunch = 1
        /\ SetBetweenLaunchAndFault(s)
        /\ setLog.returned = {Nil, "mock"}
        /\ setLog.last = "mock"
        /\ strands[s].pc = "FaultedReported"
        /\ strands[s].prints[1].logger = "mock"

\* ------------------------------------------------------------- C15
\* The states of the specification's per-task state machine.  A running
\* goroutine is Running from the call of its task until the deferred
\* function has finished.
RunningPcs == {"running", "recover-call", "gl-read", "gl-runlock", "log-print"}
\* A step of strand s from pc p to pc q follows the state machine.  (The
\* process dying while a handler or reporter is being invoked is the only
\* other way a strand stops; it puts the strand in no terminal state.)
FollowsStateMachine(p, q) ==
    \/ p = "scheduled" /\ q = "running"
    \/ p \in RunningPcs /\ q \in RunningPcs \cup TerminalPcs
    \/ p \in {"recover-call", "log-print"} /\ q = "panicked" /\ crashed'

\* C15: each launched task starts Scheduled and moves only along
\* Scheduled -> Running -> one of Completed, Faulted-Reported,
\* Faulted-Discarded; a terminal state is never left.  A task that has
\* ended is in Faulted-Reported exactly when it faulted and a handler or
\* reporter was invoked, in Faulted-Discarded exactly when it faulted and
\* the handler (GoWithRecover) or the reporter read at fault time (Go) was
\* nil, in Completed exactly when it did not fault.
C15_StateMachine ==
    /\ [](\A s \in Strands :
            Ended(s)
            => /\ strands[s].pc = "FaultedReported"
                    <=> (RaisesFault(s) /\ Invocations(s) = 1)
               /\ strands[s].pc = "FaultedDiscarded"
                    <=> (RaisesFault(s) /\ ~HandlerAttached(s)
                           /\ Invocations(s) = 0)
               /\ strands[s].pc = "Completed" <=> ~RaisesFault(s))
    /\ [][\A s \in 1 .. MaxLaunches :
            /\ (s \in Strands /\ strands'[s].pc # strands[s].pc)
                  => FollowsStateMachine(strands[s].pc, strands'[s].pc)
            /\ (s \notin Strands /\ s \in 1 .. Len(strands'))
                  => strands'[s].pc = "scheduled"
            /\ (s \in Strands /\ Ended(s)) => strands'[s].pc = strands[s].pc
         ]_vars

\* One task faulted and its handler was invoked, another faulted with a nil
\* handler: the first ended Faulted-Reported, the second Faulted-Discarded.
C15_Witness ==
    /\ Len(strands) = 2
    /\ RaisesFault(1) /\ strands[1].pc = "FaultedReported"
    /\ RaisesFault(2) /\ strands[2].pc = "FaultedDiscarded"
    /\ strands[2].handler = Nil
    /\ ~crashed

\* ------------------------------------------------------------- C16
\* Strand s is waiting for, or holds, the registry's read lock.
AtRegistry(s) ==
    /\ s \in Strands
    /\ \/ strands[s].pc = "recover-call" /\ strands[s].handler = GoClosure
       \/ strands[s].pc \in {"gl-read", "gl-runlock"}

\* C16: under fair scheduling, with finitely many calls and with task
\* bodies, handlers and reporters that return, every launched strand
\* eventually reaches a terminal state (whenever some strand has not ended,
\* a state follows in which all have), every strand at the registry's lock
\* eventually gets past it, and every SetLogger and every getLogger call
\* eventually returns (whenever some call is in progress, a state follows
\* in which all have returned).  (A process terminated by a handler or
\* reporter that faulted instead of returning schedules nothing.)
C16_EverythingTerminates ==
    /\ (\E s \in Strands : ~Ended(s))
          ~> ((\A s \in Strands : Ended(s)) \/ crashed)
    /\ \A s \in 1 .. MaxLaunches :
          AtRegistry(s) ~> (~AtRegistry(s) \/ crashed)
    /\ (\E c \in Callers : cpc[c] \in SetterPcs \cup GetterPcs)
          ~> ((\A c \in Callers : cpc[c] = "idle") \/ crashed)

\* All the calls of the run have been made, a strand launched while a
\* SetLogger call held the write lock has read the registry, and everything
\* has ended: the strand in a terminal state, the callers idle.
C16_Witness ==
    /\ ~crashed
    /\ Len(launchLog) = budget.launches
    /\ setLog.begun = budget.sets
    /\ \A c \in Callers : cpc[c] = "idle"
    /\ Len(strands) = 1
    /\ strands[1].lockedAtLaunch
    /\ strands[1].reads = 1
    /\ Ended(1)

\* ------------------------------------------------------------- C17
\* The threads inside SetLogger's critical section (between Lock() returning
\* and Unlock()), and inside getLogger's (between RLock() returning and
\* RUnlock()).
InsideSetLogger ==
    {CallerT(c) : c \in {d \in Callers :
                            cpc[d] \in {"sl-write", "sl-write2", "sl-unlock"}}}
InsideGetLogger ==
    {CallerT(c) : c \in {d \in Callers : cpc[d] \in {"gl-read", "gl-runlock"}}}
        \cup {StrandT(s) : s \in {r \in Strands :
                            strands[r].pc \in {"gl-read", "gl-runlock"}}}

\* C17: at most one thread is inside SetLogger's critical section, and
\* while one is, none is inside getLogger's (several may be inside
\* getLogger's at once).  Every getLogger, of a caller or of a strand,
\* returns what the latest SetLogger critical section completed before the
\* read wrote: the built-in reporter when there is none, else the argument
\* of that SetLogger call; never a mix of two reporters.
C17_ReaderWriterDiscipline ==
    /\ Cardinality(InsideSetLogger) <= 1
    /\ InsideSetLogger # {} => InsideGetLogger = {}
    /\ InsideSetLogger \subseteq {rwWriter}
    /\ InsideGetLogger = rwReaders
    /\ \A c \in Callers :
         cpc[c] = "gl-runlock"
         => /\ cret[c].val = LatestWritten
            /\ cret[c].val \in {Builtin} \cup LoggerArgs
    /\ \A c \in Callers :
         cret[c].got
         => /\ cret[c].val = (IF cret[c].returned = {} THEN Builtin
                              ELSE cret[c].last)
            /\ cret[c].val \in {Builtin} \cup cret[c].returned
    /\ \A s \in Strands :
         strands[s].pc = "gl-runlock"
         => /\ strands[s].logger = LatestWritten
            /\ strands[s].logger \in {Builtin} \cup LoggerArgs

\* Two getLogger calls are inside the critical section at once, after a
\* SetLogger call has completed; one of the readers holds the value the
\* completed call wrote.
C17_Witness ==
    /\ Cardinality(InsideGetLogger) = 2
    /\ setLog.returned # {}
    /\ \E c \in Callers : cpc[c] = "gl-runlock" /\ cret[c].val = setLog.last

\* ------------------------------------------------------------- C18
\* C18: Go(nil) is a silent no-op, like GoWithRecover(nil, h): the call
\* creates no strand, does not read the registry or touch its lock, invokes
\* no reporter and raises no fault; nothing but the record of the call
\* changes, and no strand ever runs a nil task.
C18_GoNilNoOp ==
    /\ [][(IsLaunchStep /\ ThisLaunch.op = "Go" /\ ThisLaunch.task = Nil)
            => /\ ThisLaunch.strand = 0
               /\ UNCHANGED <<strands, defaultLogger, rwWriter, rwReaders,
                              cpc, carg, cret, setLog, crashed>>]_vars
    /\ [](\A s \in Strands : strands[s].task # Nil)

\* Go(nil) was called twice: there is no strand, the registry still holds
\* the built-in reporter with its lock free, and the process is alive.
C18_Witness ==
    /\ Len(launchLog) = 2
    /\ \A i \in 1 .. 2 : launchLog[i].op = "Go" /\ launchLog[i].task = Nil
    /\ strands = <<>>
    /\ Load(defaultLogger) = Builtin
    /\ rwReaders = {} /\ rwWriter = NoThread
    /\ ~crashed

\* ------------------------------------------------------------- C19
\* The steps of strand s other than the reporter's Print returning.
StrandStepBeforePrint(s) ==
    /\ s \in Strands
    /\ \/ StrandStart(s) \/ TaskRun(s) \/ CallHandler(s) \/ ClosureRLock(s)
       \/ ClosureRead(s) \/ ClosureRUnlock(s)

\* Fair scheduling with reporters whose Print may never return: a strand may
\* stay in its Print call for ever.
HangingPrintSpec ==
    /\ FairInit
    /\ [][Next]_vars
    /\ \A c \in Callers : WF_vars(CallerStep(c))
    /\ \A s \in 1 .. MaxLaunches : WF_vars(StrandStepBeforePrint(s))

\* This step is a call of a reporter's Print by strand s.
PrintStep(s) ==
    /\ s \in Strands
    /\ strands[s].pc = "log-print"
    /\ strands'[s].pc # "log-print"

\* C19: on the default path Print is invoked only after getLogger has
\* released the read lock: the strand that is about to call, or is inside,
\* a reporter holds no side of the registry's lock (it has read the
\* registry before).  Hence SetLogger and getLogger calls made while a
\* reporter runs (by the reporter itself or by anyone else) are not blocked
\* by it: even if a Print never returns, every SetLogger and getLogger call
\* in progress returns.
C19_PrintOutsideLock ==
    /\ [](\A s \in Strands :
            strands[s].pc = "log-print"
            => /\ StrandT(s) \notin rwReaders
               /\ rwWriter # StrandT(s)
               /\ strands[s].reads = 1)
    /\ [][\A s \in 1 .. MaxLaunches :
            PrintStep(s) => /\ StrandT(s) \notin rwReaders
                            /\ UNCHANGED <<rwReaders, rwWriter>>]_vars
    /\ (\E c \in Callers : cpc[c] \in SetterPcs \cup GetterPcs)
          ~> ((\A c \in Callers : cpc[c] = "idle") \/ crashed)

\* A strand read the built-in reporter and is inside its Print; meanwhile a
\* SetLogger call has gone through its critical section and returned.
C19_Witness ==
    \E s \in Strands :
        /\ strands[s].pc = "log-print"
        /\ strands[s].logger = Builtin
        /\ setLog.returned # {}
        /\ setLog.begun = budget.sets
        /\ \A c \in Callers : cpc[c] = "idle"
        /\ ~crashed

\* ------------------------------------------------------------- C20
\* C20: on the default path the nil check and the Print call use one
\* snapshot of the registry slot, the value the strand's single read
\* returned.  A strand gets to the call only with a non-nil snapshot, and
\* the call goes to the snapshot with the strand's own fault, whatever the
\* slot holds by then (nil included): a SetLogger that lands between the
\* check and the call never makes the strand invoke a nil reporter, and the
\* only fault a strand launched by Go lets out is one raised by the
\* reporter's own Print.
C20_SingleSnapshot ==
    /\ [](\A s \in Strands :
            LET st == strands[s]
            IN  /\ st.pc = "log-print"
                   => st.logger \notin {Nil, Torn} /\ st.reads = 1
                /\ st.prints # <<>>
                   => /\ Len(st.prints) = 1
                      /\ st.prints[1].logger = st.logger
                      /\ st.logger \notin {Nil, Torn}
                      /\ st.reads = 1
                /\ (st.op = "Go" /\ st.pc = "panicked")
                   => /\ st.logger \in PanicLoggers
                      /\ st.prints # <<>>)
    /\ [][\A s \in 1 .. MaxLaunches :
            PrintStep(s)
            => strands'[s].prints =
                 <<[logger |-> strands[s].logger, err |-> strands[s].err,
                    stack |-> Stack(s)]>>]_vars

\* A strand read the reporter mock and found it non-nil; SetLogger(nil) has
\* since completed, so the slot holds nil, and the strand is at the call.
C20_Witness ==
    \E s \in Strands :
        /\ strands[s].pc = "log-print"
        /\ strands[s].logger = "mock"
        /\ Nil \in setLog.returned
        /\ Load(defaultLogger) = Nil
        /\ \A c \in Callers : cpc[c] = "idle"
        /\ ~crashed

\* ------------------------------------------------------------- C21
\* This step is an assignment of SetLogger to the slot: a caller inside
\* SetLogger's critical section stores a word of its argument.
SetLoggerWriteStep ==
    \E c \in Callers :
        /\ cpc[c] \in {"sl-write", "sl-write2"}
        /\ cpc'[c] # cpc[c]
        /\ rwWriter = CallerT(c)
        /\ \A i \in 1 .. 2 :
             defaultLogger'[i] \in {defaultLogger[i], carg[c]}
\* This step is a step of the library other than SetLogger: a launch call,
\* a step of a strand (its start, its task, the interception, the handler,
\* the closure's getLogger and Print), or a step of a caller's getLogger.
OtherLibraryStep ==
    \/ launchLog' # launchLog
    \/ strands' # strands
    \/ \E c \in Callers :
          cpc'[c] # cpc[c] /\ (cpc[c] \in GetterPcs \/ cpc'[c] \in GetterPcs)

\* C21: the registry slot changes only by the assignment of SetLogger.  Go,
\* GoWithRecover, getLogger, the run of a task, the interception of a
\* fault, and the invocation of a handler or reporter leave it as it is; in
\* particular the built-in reporter is never put back: the slot holds it
\* only as long as no SetLogger has written.
C21_SlotChangesOnlyBySetLogger ==
    /\ [][defaultLogger' # defaultLogger => SetLoggerWriteStep]_vars
    /\ [][OtherLibraryStep => defaultLogger' = defaultLogger]_vars
    /\ [](Load(defaultLogger) = Builtin
            => /\ setLog.returned = {}
               /\ \A c \in Callers : cpc[c] # "sl-unlock")

\* SetLogger(nil) has returned; afterwards a task launched with Go faulted,
\* its boundary read the registry and the strand has ended, and the slot
\* still holds nil.
C21_Witness ==
    /\ setLog.returned = {Nil}
    /\ setLog.begun = 1
    /\ defaultLogger = Iface(Nil)
    /\ \E s \in Strands :
         /\ strands[s].op = "Go" /\ RaisesFault(s)
         /\ strands[s].setsAtFault = 1 /\ strands[s].quietAtFault
         /\ strands[s].reads = 1
         /\ Ended(s)

\* ------------------------------------------------------------- C22
\* The task of strand s ends abruptly with recover() yielding nil.
EndsAbruptlyWithNil(s) == strands[s].task = AbruptNil

\* C22: the boundary invokes the handler only when the value recover()
\* yields is non-nil.  A task that ends abruptly with a nil value has
\* neither the caller's handler nor a reporter invoked, the registry is not
\* read, and the strand ends as a task that returned does (Completed), also
\* when a non-nil handler or reporter is there; and whatever a handler or
\* reporter is invoked with is a non-nil value.
C22_NilValueNotHandled ==
    /\ \A s \in Strands :
         EndsAbruptlyWithNil(s)
         => /\ Invocations(s) = 0
            /\ ~TouchedRegistry(s)
            /\ strands[s].err = Nil
            /\ strands[s].pc \in {"scheduled", "running", "Completed"}
    /\ \A s \in Strands :
         /\ Nil \notin Received(s)
         /\ strands[s].pc \in {"recover-call", "gl-read", "gl-runlock",
                               "log-print", "FaultedReported"}
               => strands[s].err # Nil

\* Two tasks ended abruptly with a nil value, one launched by GoWithRecover
\* with a handler, one by Go with the built-in reporter installed: both
\* strands ended Completed and nothing was invoked.
C22_Witness ==
    /\ Len(strands) = 2
    /\ \A s \in Strands :
         EndsAbruptlyWithNil(s) /\ strands[s].pc = "Completed"
            /\ Invocations(s) = 0
    /\ \E s \in Strands :
         strands[s].op = "GoWithRecover" /\ strands[s].handler = HReturns
    /\ \E s \in Strands : strands[s].op = "Go"
    /\ Load(defaultLogger) = Builtin
    /\ ~crashed

====
